---- MODULE Spec2Model ----
(***************************************************************************)
(* RecentChats (listen-interface/src/components/RecentChats.tsx): a React  *)
(* component that reads every cached chat once on mount, sorts the array   *)
(* it was given by lastMessageAt (newest first), keeps the first five and  *)
(* renders one row per kept chat plus a "view all chats" row.              *)
(*                                                                         *)
(* Strings are sequences of one-character strings, so that slice(0, 20)    *)
(* and the + "..." concatenation are computed, not assumed.  An optional   *)
(* value (chat.title, messages[0]) is a sequence of length 0 or 1.         *)
(***************************************************************************)
EXTENDS Integers, Sequences, FiniteSets

\* ------------------------------------------------------------- bounds
MaxChats == 6          \* largest cache handed out by getAll()
MaxTime == 2           \* lastMessageAt.getTime() ranges over 1..MaxTime
MaxActivations == 2    \* mounts of the component in one behaviour
MaxTextLen == 21       \* longest message text
MaxMessages == 2       \* longest messages list of the single-chat caches

\* ------------------------------------------------- program constants
PreviewCount == 5      \* .slice(0, 5)
PreviewChars == 20     \* .message.slice(0, 20)

Min(a, b) == IF a < b THEN a ELSE b

\* ------------------------------------------------------------ strings
Alphabet == <<"a", "b", "c">>
Text(n) == [i \in 1..n |-> Alphabet[((i - 1) % Len(Alphabet)) + 1]]
Ellipsis == <<".", ".", ".">>
\* String(undefined), what `undefined + "..."` starts with
UndefinedString == <<"u", "n", "d", "e", "f", "i", "n", "e", "d">>

\* String.prototype.slice(0, n)
StrSlice(s, n) == SubSeq(s, 1, Min(n, Len(s)))

\* ------------------------------------------------------ input domains
Times == 1..MaxTime
TextLens == {0, 1, PreviewChars - 1, PreviewChars, MaxTextLen}
Texts == {Text(n) : n \in TextLens}
\* chat.title: absent, the empty string, a short one, one longer than the preview
Titles == {<<>>, <<Text(0)>>, <<Text(3)>>, <<Text(MaxTextLen)>>}
Message(text) == [message |-> text]
MessageLists ==
    UNION {[1..n -> {Message(t) : t \in Texts}] : n \in 0..MaxMessages}

Chat(id, title, messages, at) ==
    [id |-> id, title |-> title, messages |-> messages, lastMessageAt |-> at]

\* The content of the chats of the larger caches, by id: titled, untitled
\* with a long first message, untitled with a short one, titled "".
Contents == <<
    [title |-> <<Text(3)>>, messages |-> <<Message(Text(1))>>],
    [title |-> <<>>, messages |-> <<Message(Text(MaxTextLen)), Message(Text(1))>>],
    [title |-> <<>>, messages |-> <<Message(Text(1))>>],
    [title |-> <<Text(0)>>, messages |-> <<Message(Text(PreviewChars))>>] >>
ContentOf(id) == Contents[((id - 1) % Len(Contents)) + 1]

\* Caches of 0..MaxChats chats with unique ids and any timestamps.
TimedCaches ==
    UNION {{[i \in 1..n |->
                Chat(i, ContentOf(i).title, ContentOf(i).messages, at[i])]
            : at \in [1..n -> Times]} : n \in 0..MaxChats}
\* Caches of one chat with any title and any messages.
SingleChatCaches ==
    {<<Chat(1, title, messages, 1)>> : title \in Titles, messages \in MessageLists}

\* i18n.language tags
Languages == {<<"e", "n">>, <<"z", "h", "-", "C", "N">>}

VARIABLES
    cache,          \* what chatCache holds, in the order getAll() hands it out
    lang,           \* i18n.language
    mounted,        \* is an instance of RecentChats mounted
    activation,     \* number of mounts so far; names the current instance
    recentChats,    \* useState<Chat[]>([]) of the current instance
    rendered,       \* rows of the last committed render
    rerendered,     \* has the current instance rendered again on a language change
    reads,          \* the loadRecentChats() invocations, one record each
    getAllCalls,    \* chatCache.getAll() calls of the current instance
    setCalls,       \* setRecentChats calls applied to the current instance
    staleSetCalls   \* setRecentChats calls made on an unmounted instance

vars == <<cache, lang, mounted, activation, recentChats, rendered, rerendered,
          reads, getAllCalls, setCalls, staleSetCalls>>
\* ------------------------------------------------- loadRecentChats
\* The comparator handed to sort: (b.getTime() ?? 0) - (a.getTime() ?? 0).
\* getTime() returns a number, so the ?? 0 arms are never taken.
CompareAscending(a, b) == a.lastMessageAt - b.lastMessageAt
Compare(a, b) == b.lastMessageAt - a.lastMessageAt

\* Array.prototype.sort is stable: x goes before the first element that the
\* comparator orders after it, and after every element it ties with.
InsertSorted(sorted, x) ==
    LET after == {i \in 1..Len(sorted) : Compare(sorted[i], x) > 0}
        p == IF after = {} THEN Len(sorted) + 1
             ELSE CHOOSE i \in after : \A j \in after : i <= j
    IN SubSeq(sorted, 1, p - 1) \o <<x>> \o SubSeq(sorted, p, Len(sorted))

RECURSIVE Sort(_)
Sort(s) ==
    IF Len(s) = 0 THEN <<>>
    ELSE InsertSorted(Sort(SubSeq(s, 1, Len(s) - 1)), s[Len(s)])

\* .slice(0, 5)
SliceAll(s) == s
SliceShort(s) == SubSeq(s, 1, Min(PreviewCount - 1, Len(s)))
SliceRecent(s) == SubSeq(s, 1, Min(PreviewCount, Len(s)))

\* ----------------------------------------------------------- render
\* JavaScript truthiness of chat.title: set and not the empty string.
Truthy(title) == Len(title) > 0 /\ Len(title[1]) > 0

\* chat.messages[0], undefined when the chat has no messages
FirstMessage(chat) ==
    IF Len(chat.messages) > 0 THEN <<chat.messages[1]>> ELSE <<>>

\* chat.messages[0]?.message.slice(0, 20) + "...": the optional chain yields
\* undefined for a chat without messages, and undefined + "..." is a string.
Preview(chat) ==
    (IF FirstMessage(chat) = <<>> THEN UndefinedString
     ELSE StrSlice(FirstMessage(chat)[1].message, PreviewChars)) \o Ellipsis

\* chat.title || chat.messages[0]?.message.slice(0, 20) + "..."
Label(chat) == IF Truthy(chat.title) THEN chat.title[1] ELSE Preview(chat)

StartsWith(s, prefix) ==
    Len(s) >= Len(prefix) /\ SubSeq(s, 1, Len(prefix)) = prefix

\* i18n.language.startsWith("zh") ? zhCN : undefined
getLocale(l) == IF StartsWith(l, <<"z", "h">>) THEN "zhCN" ELSE "undefined"

ChatRow(chat, l) ==
    [kind |-> "chat", to |-> "/chat", chatId |-> chat.id, label |-> Label(chat),
     at |-> chat.lastMessageAt, locale |-> getLocale(l)]
ViewAllRow ==
    [kind |-> "viewAll", to |-> "/chat-history",
     label |-> "recent_chats.view_all_chats"]

\* The rows of the returned JSX.
RenderAlwaysViewAll(chats, l) ==
    [i \in 1..Len(chats) |-> ChatRow(chats[i], l)] \o <<ViewAllRow>>
Render(chats, l) ==
    [i \in 1..Len(chats) |-> ChatRow(chats[i], l)]
        \o (IF Len(chats) > 0 THEN <<ViewAllRow>> ELSE <<>>)

\* ----------------------------------------------------------- effect
\* useEffect(..., []): the effect runs after the mount render only.
EffectRunsEveryRender(isMount) == TRUE
EffectRuns(isMount) == isMount

\* The effect calls loadRecentChats(), which awaits chatCache.getAll(); the
\* promise loadRecentChats() returns is dropped.
StartRead(rs, act) ==
    Append(rs, [act |-> act, status |-> "pending",
                returned |-> <<>>, allChats |-> <<>>])
AfterRender(rs, act, isMount) ==
    IF EffectRuns(isMount) THEN StartRead(rs, act) ELSE rs
ReadsStarted(isMount) == IF EffectRuns(isMount) THEN 1 ELSE 0

\* setRecentChats belongs to the instance whose effect started the read; React
\* drops an update of an instance that is no longer mounted.
SetAppliesToAnyInstance(act) == mounted
SetApplies(act) == mounted /\ act = activation

\* ---------------------------------------------------------- actions
Init ==
    /\ cache \in TimedCaches \cup SingleChatCaches
    /\ lang \in Languages
    /\ mounted = FALSE
    /\ activation = 0
    /\ recentChats = <<>>
    /\ rendered = <<>>
    /\ rerendered = FALSE
    /\ reads = <<>>
    /\ getAllCalls = 0
    /\ setCalls = 0
    /\ staleSetCalls = 0

\* A new instance: useState([]), the first render, then the effect.
Mount ==
    /\ ~mounted
    /\ activation < MaxActivations
    /\ mounted' = TRUE
    /\ activation' = activation + 1
    /\ recentChats' = <<>>
    /\ rendered' = Render(<<>>, lang)
    /\ rerendered' = FALSE
    /\ reads' = AfterRender(reads, activation + 1, TRUE)
    /\ getAllCalls' = ReadsStarted(TRUE)
    /\ setCalls' = 0
    /\ UNCHANGED <<cache, lang, staleSetCalls>>

\* The effect returns no cleanup: a pending read stays pending.
Unmount ==
    /\ mounted
    /\ mounted' = FALSE
    /\ recentChats' = <<>>
    /\ rendered' = <<>>
    /\ rerendered' = FALSE
    /\ getAllCalls' = 0
    /\ setCalls' = 0
    /\ UNCHANGED <<cache, lang, activation, reads, staleSetCalls>>

\* useTranslation re-renders a mounted instance when the language changes.
ChangeLanguage(l) ==
    /\ l # lang
    /\ lang' = l
    /\ IF mounted
       THEN /\ rendered' = Render(recentChats, l)
            /\ rerendered' = TRUE
            /\ reads' = AfterRender(reads, activation, FALSE)
            /\ getAllCalls' = getAllCalls + ReadsStarted(FALSE)
       ELSE UNCHANGED <<rendered, rerendered, reads, getAllCalls>>
    /\ UNCHANGED <<cache, mounted, activation, recentChats, setCalls,
                   staleSetCalls>>

\* chatCache.getAll() resolves and loadRecentChats runs to its end: the
\* array it was given is sorted in place, its first five are stored, and the
\* instance renders again.
GetAllResolves(i) ==
    /\ reads[i].status = "pending"
    /\ LET allChats == cache
           nonEmpty == Len(allChats) > 0
           sorted == IF nonEmpty THEN Sort(allChats) ELSE allChats
           recent == SliceRecent(sorted)
           applies == nonEmpty /\ SetApplies(reads[i].act)
           done == [reads EXCEPT ![i] = [act |-> reads[i].act,
                                         status |-> "fulfilled",
                                         returned |-> allChats,
                                         allChats |-> sorted]]
       IN /\ recentChats' = IF applies THEN recent ELSE recentChats
          /\ rendered' = IF applies THEN Render(recent, lang) ELSE rendered
          /\ reads' = IF applies THEN AfterRender(done, activation, FALSE)
                      ELSE done
          /\ getAllCalls' = IF applies THEN getAllCalls + ReadsStarted(FALSE)
                            ELSE getAllCalls
          /\ setCalls' = IF applies THEN setCalls + 1 ELSE setCalls
          /\ staleSetCalls' = IF nonEmpty /\ ~applies THEN staleSetCalls + 1
                              ELSE staleSetCalls
    /\ UNCHANGED <<cache, lang, mounted, activation, rerendered>>

\* chatCache.getAll() rejects: the await throws inside loadRecentChats, which
\* has no try/catch, so the promise it returned rejects; nothing else runs.
GetAllRejects(i) ==
    /\ reads[i].status = "pending"
    /\ reads' = [reads EXCEPT ![i].status = "rejected"]
    /\ UNCHANGED <<cache, lang, mounted, activation, recentChats, rendered,
                   rerendered, getAllCalls, setCalls, staleSetCalls>>

Next ==
    \/ Mount
    \/ Unmount
    \/ \E l \in Languages : ChangeLanguage(l)
    \/ \E i \in 1..Len(reads) : GetAllResolves(i)
    \/ \E i \in 1..Len(reads) : GetAllRejects(i)

Spec == Init /\ [][Next]_vars

\* ----------------------------------------------------- derived state
\* The reads started by the current instance.
OwnReads == {i \in 1..Len(reads) : mounted /\ reads[i].act = activation}
\* Rejected promises of loadRecentChats(): the call site attaches no handler.
UnhandledRejections == {i \in 1..Len(reads) : reads[i].status = "rejected"}

\* Ids of the chats the current instance holds.
HeldIds == {recentChats[k].id : k \in 1..Len(recentChats)}
\* The reads of the current instance that resolved with at least one chat.
OwnLoaded ==
    {r \in OwnReads : reads[r].status = "fulfilled" /\ Len(reads[r].returned) > 0}

\* ------------------------------------------------------------ claims

\* C1: in every reachable state, before and after the read resolves and for
\* any number of cached chats, recentChats has at most 5 entries.
C1_AtMostFive == Len(recentChats) <= PreviewCount

C1_Witness ==
    /\ mounted
    /\ Len(cache) > PreviewCount
    /\ OwnLoaded # {}
    /\ Len(recentChats) = PreviewCount

\* C2: the held list is in descending order of lastMessageAt: a chat at an
\* earlier position is never older than one at a later position.
C2_Descending ==
    \A i, j \in 1..Len(recentChats) :
        i < j => recentChats[i].lastMessageAt >= recentChats[j].lastMessageAt

C2_Witness ==
    /\ OwnLoaded # {}
    /\ Len(recentChats) >= 3
    /\ cache[1].lastMessageAt < cache[2].lastMessageAt
    /\ recentChats[1].lastMessageAt > recentChats[Len(recentChats)].lastMessageAt

\* C3: once the read of n >= 1 chats has been stored, the instance holds
\* exactly min(5, n) distinct chats of that snapshot, and every chat of the
\* snapshot that is not held is at most as recent as every held chat.
C3_MostRecent ==
    \A r \in OwnLoaded :
        LET snapshot == reads[r].returned
        IN /\ Len(recentChats) = Min(PreviewCount, Len(snapshot))
           /\ Cardinality(HeldIds) = Len(recentChats)
           /\ \A k \in 1..Len(recentChats) :
                  \E m \in 1..Len(snapshot) : snapshot[m] = recentChats[k]
           /\ \A m \in 1..Len(snapshot) :
                  snapshot[m].id \notin HeldIds =>
                      \A k \in 1..Len(recentChats) :
                          snapshot[m].lastMessageAt <= recentChats[k].lastMessageAt

C3_Witness ==
    \E r \in OwnLoaded :
        LET snapshot == reads[r].returned
        IN /\ Len(snapshot) = PreviewCount + 1
           /\ Len(recentChats) = PreviewCount
           /\ \E m \in 1..PreviewCount :
                  /\ snapshot[m].id \notin HeldIds
                  /\ \A k \in 1..Len(recentChats) :
                         snapshot[m].lastMessageAt < recentChats[k].lastMessageAt

\* C4: a render of an empty list has no row at all; a render of a non-empty
\* list has one chat row per held chat, in order, followed by exactly one
\* "view all" row, which is the last row.
C4_ViewAllIffNonEmpty ==
    mounted =>
        /\ Len(recentChats) = 0 => Len(rendered) = 0
        /\ Len(recentChats) > 0 =>
              /\ Len(rendered) = Len(recentChats) + 1
              /\ \A i \in 1..Len(recentChats) :
                     /\ rendered[i].kind = "chat"
                     /\ rendered[i].chatId = recentChats[i].id
              /\ rendered[Len(rendered)].kind = "viewAll"

C4_Witness ==
    /\ mounted
    /\ rerendered
    /\ Len(recentChats) = 2
    /\ Len(rendered) = 3
    /\ rendered[3].kind = "viewAll"

\* C5: the label of every chat row is the chat's title when it has one, and
\* otherwise the first 20 characters of the text of its first message (no
\* characters when there is none) followed by "...".
C5_LabelAsClaimed ==
    \A i \in 1..Len(recentChats) :
        LET chat == recentChats[i]
            text == IF Len(chat.messages) > 0 THEN chat.messages[1].message
                    ELSE <<>>
        IN rendered[i].label =
               IF Truthy(chat.title) THEN chat.title[1]
               ELSE StrSlice(text, PreviewChars) \o Ellipsis

\* C6: when the cache read rejects, the instance stays empty and renders no
\* row, reads the cache no second time, and no rejection is left unhandled.
C6_FailureHandled ==
    /\ \A r \in OwnReads :
           reads[r].status = "rejected" =>
               /\ recentChats = <<>>
               /\ rendered = <<>>
               /\ getAllCalls = 1
    /\ UnhandledRejections = {}

\* C7: a mounted instance has called chatCache.getAll() exactly once, however
\* many times it has rendered again (after setRecentChats, after a language
\* change).
C7_OneReadPerActivation ==
    mounted => getAllCalls = 1 /\ Cardinality(OwnReads) = 1

C7_Witness ==
    /\ mounted
    /\ rerendered
    /\ setCalls = 1
    /\ getAllCalls = 1

\* C8: an instance starts empty, is empty while its read is pending, holds 1
\* to 5 chats only after its own read resolved with a non-empty result, is
\* populated at most once, and once populated keeps its list until unmounted.
C8_State ==
    /\ Len(recentChats) <= PreviewCount
    /\ setCalls <= 1
    /\ Len(recentChats) > 0 => OwnLoaded # {}
    /\ (mounted /\ \A r \in OwnReads : reads[r].status = "pending") =>
           Len(recentChats) = 0 /\ Len(rendered) = 0
C8_Step ==
    /\ (~mounted /\ mounted') => Len(recentChats') = 0
    /\ (mounted /\ mounted' /\ Len(recentChats) > 0) =>
           recentChats' = recentChats
C8_TwoStateMachine == [](C8_State) /\ [][C8_Step]_vars

C8_Witness ==
    /\ mounted
    /\ activation = 2
    /\ staleSetCalls = 1
    /\ rerendered
    /\ Len(recentChats) > 0

\* C9: setRecentChats is never called on an instance that has been unmounted.
C9_NoSetAfterUnmount == staleSetCalls = 0

\* C10: loading leaves what the cache holds and what getAll() handed out as
\* they were, the order of the handed-out array included.
C10_ReadOnly ==
    \A r \in 1..Len(reads) :
        reads[r].status = "fulfilled" =>
            /\ reads[r].returned = cache
            /\ reads[r].allChats = reads[r].returned
====
